---- MODULE Spec2Model ----
(***************************************************************************)
(* A model of tinymce-docs-cleanup-action: the Version model (version.ts), *)
(* the bounded-concurrency scheduler parallelGenerator (parallel.ts) and   *)
(* the retention pipeline run / main / tagOldVersions (main.ts).           *)
(*                                                                         *)
(* Strings are tuples of one-character strings, so that parsing, ordering  *)
(* of keys and prefix construction are computed and not assumed.           *)
(***************************************************************************)
EXTENDS Integers, Sequences, FiniteSets, TLC

(***************************************************************************)
(* Bounds of the model.                                                    *)
(***************************************************************************)
\* the scheduler alone: max ranges over 0..MaxMax, the source holds 0..MaxOps operations
MaxMax == 5
MaxOps == 4
\* the pipeline: every version prefix holds 1..MaxFiles objects
MaxFiles == 3
\* the number of consecutive runs of the action against the same bucket
MaxRuns == 2
\* the number of store requests the environment may fail in one run
MaxFailures == 1
\* the number of entries the store returns in one listing page
PageSize == 2
\* the run and attempt numbers compared range over 0..MaxOrdinal and one number of
\* two digits
MaxOrdinal == 2
\* the digit groups of the strings given to extractVersion have 1..MaxDigits digits
MaxDigits == 2
\* keyTaggedAsOld is applied to one object up to MaxMarks times
MaxMarks == 2

(***************************************************************************)
(* Untyped JavaScript values, as far as the program inspects them.         *)
(***************************************************************************)
StringVal(s) == [type |-> "string", val |-> s]
NumberVal(n) == [type |-> "number", val |-> n]
Undefined == [type |-> "undefined"]
NaN == 0 - 1

Digits == {"0", "1", "2", "3", "4", "5", "6", "7", "8", "9"}

DigitVal(c) ==
    CASE c = "0" -> 0 [] c = "1" -> 1 [] c = "2" -> 2 [] c = "3" -> 3
      [] c = "4" -> 4 [] c = "5" -> 5 [] c = "6" -> 6 [] c = "7" -> 7
      [] c = "8" -> 8 [] c = "9" -> 9

\* the value of a run of decimal digits, most significant first
RECURSIVE DecimalValue(_)
DecimalValue(ds) ==
    IF ds = <<>> THEN 0
    ELSE 10 * DecimalValue(SubSeq(ds, 1, Len(ds) - 1)) + DigitVal(ds[Len(ds)])

\* the longest prefix of s made of digits
RECURSIVE LeadingDigits(_)
LeadingDigits(s) ==
    IF s = <<>> \/ s[1] \notin Digits THEN <<>>
    ELSE <<s[1]>> \o LeadingDigits(Tail(s))

\* parseInt(s, 10): an optional sign, then the leading digits; NaN without a digit
parseInt(s) ==
    LET neg == s # <<>> /\ s[1] = "-"
        body == IF s # <<>> /\ s[1] \in {"-", "+"} THEN Tail(s) ELSE s
        ds == LeadingDigits(body)
    IN  IF ds = <<>> THEN NaN
        ELSE IF neg THEN 0 - DecimalValue(ds) ELSE DecimalValue(ds)

\* the pattern without its end anchor, /^run-(\d+)-(\d+)/
VersionRegExpUnanchored(v) ==
    LET n == Len(v)
        ok(k) == /\ SubSeq(v, 1, 4) = <<"r", "u", "n", "-">>
                 /\ v[k] = "-"
                 /\ \A j \in 5..(k - 1) : v[j] \in Digits
                 /\ v[k + 1] \in Digits
    IN  IF \E k \in 6..(n - 1) : ok(k)
        THEN LET k == CHOOSE k \in 6..(n - 1) : ok(k)
             IN  <<SubSeq(v, 5, k - 1), LeadingDigits(SubSeq(v, k + 1, n))>>
        ELSE <<>>

\* /^run-(\d+)-(\d+)$/.exec(v): the two captured groups, or <<>> for no match
VersionRegExp(v) ==
    LET n == Len(v)
        ok(k) == /\ SubSeq(v, 1, 4) = <<"r", "u", "n", "-">>
                 /\ v[k] = "-"
                 /\ \A j \in 5..(k - 1) : v[j] \in Digits
                 /\ \A j \in (k + 1)..n : v[j] \in Digits
    IN  IF \E k \in 6..(n - 1) : ok(k)
        THEN LET k == CHOOSE k \in 6..(n - 1) : ok(k)
             IN  <<SubSeq(v, 5, k - 1), SubSeq(v, k + 1, n)>>
        ELSE <<>>

extractVersion(s) ==
    IF s.type # "string" THEN Undefined
    ELSE LET m == VersionRegExp(s.val)
         IN  IF m = <<>> THEN Undefined
             ELSE LET runNum == parseInt(m[1])
                      attempt == parseInt(m[2])
                  IN  IF runNum # NaN /\ attempt # NaN
                      THEN [type |-> "version", version |-> s.val,
                            run |-> runNum, attempt |-> attempt]
                      ELSE Undefined

\* a comparator that takes the attempt as the primary key
compareVersionsAttemptFirst(a, b) ==
    LET d == a.attempt - b.attempt
    IN  IF d = 0 THEN a.run - b.run ELSE d

compareVersions(a, b) ==
    LET d == a.run - b.run
    IN  IF d = 0 THEN a.attempt - b.attempt ELSE d

(***************************************************************************)
(* The state.                                                              *)
(***************************************************************************)
VARIABLES
    \* the object store and the action's inputs (fixed during a run)
    store, inputs,
    \* run / main / tagOldVersions
    runNo, runState, ppc, clientCreated, parallel, currentVersion, versions,
    olderVersions, vIdx, firstKey, marker, page, failures, prevOutcome,
    \* what a run has done so far (history of the current run)
    sent, markOps, reported, scanned, setFailedCalls,
    \* parallelGenerator and the operations it has pulled
    max, source, pulls, tasks, gpc, winner, opState, opData, yielded, requested,
    \* the operations fulfilled and not yet yielded, in the order in which they
    \* fulfilled, each with the operations that were in flight with it then (history)
    settled,
    \* a function of version.ts or a mark-operation applied on its own: the input
    \* and the results so far
    call, ret

storeVars == <<store, inputs>>
fnVars == <<call, ret>>
runVars == <<runNo, runState, ppc, clientCreated, parallel, currentVersion, versions,
             olderVersions, vIdx, firstKey, marker, page, prevOutcome>>
histVars == <<sent, markOps, reported, scanned, setFailedCalls>>
genVars == <<max, source, pulls, tasks, gpc, winner, opState, opData, yielded, requested,
             settled>>
vars == <<storeVars, runVars, histVars, failures, genVars, fnVars>>

(***************************************************************************)
(* parallelGenerator (parallel.ts).                                        *)
(*                                                                         *)
(* source is the list of items the source generator yields; the k-th call  *)
(* of source.next() returns item k, or done once the list is used up.  An  *)
(* operation is named by its position in source and starts when pulled.    *)
(* tasks[i] is the promise made by wrap(i, ...): it holds an operation, or *)
(* the done signal, or null once moved out of the wait-set.                *)
(***************************************************************************)
NoWinner == 0 - 1
NoData == [type |-> "undefined"]

TaskItem(k) == [kind |-> "task", id |-> k]
MarkItem(key) == [kind |-> "mark", key |-> key]

\* the result of the (p+1)-th call of source.next() on the source src
SourceNext(src, p) ==
    IF p < Len(src) THEN [done |-> FALSE, value |-> p + 1]
    ELSE [done |-> TRUE, value |-> 0]

wrap(i, task) ==
    IF task.done THEN [kind |-> "done", op |-> 0]
    ELSE [kind |-> "op", op |-> task.value]

\* a slot that is left holding a done signal instead of null
NullTaskLeftDone == [kind |-> "done", op |-> 0]

NullTask == [kind |-> "null", op |-> 0]

\* a refill that always writes slot 0
RefilledFirstSlot(ts, i, task) == [ts EXCEPT ![0] = wrap(0, task)]

\* tasks[i] = wrap(i, source.next()) of line 29
Refilled(ts, i, task) == [ts EXCEPT ![i] = wrap(i, task)]

\* the state in which an operation starts: keyTaggedAsOld sends its HeadObject at once
StartState(item) == IF item.kind = "mark" THEN "head" ELSE "pending"

\* a wrap that forgets to resolve on the done signal
ResolvedValueOnly(t, ops) == t.kind = "op" /\ ops[t.op] = "fulfilled"

\* a wrap that resolves with the promise of the operation without awaiting it
ResolvedOnStart(t, ops) ==
    \/ t.kind = "done"
    \/ t.kind = "op" /\ ops[t.op] # "unstarted"

\* wrap's promise has resolved: a done signal at once, an operation when it fulfils;
\* wrap registers no rejection handler, so a rejected operation never resolves it
Resolved(t, ops) ==
    \/ t.kind = "done"
    \/ t.kind = "op" /\ ops[t.op] = "fulfilled"

\* a race that takes the lowest slot whether or not its promise has resolved
RaceLowestSlot(raced, ts, ops) ==
    IF raced = {} THEN NoWinner ELSE CHOOSE i \in raced : \A j \in raced : i <= j

\* Promise.race over the slots in raced: of the promises already resolved the one at
\* the lowest index wins; with none resolved the race stays pending
Race(raced, ts, ops) ==
    LET ready == {i \in raced : Resolved(ts[i], ops)}
    IN  IF ready = {} THEN NoWinner
        ELSE CHOOSE i \in ready : \A j \in ready : i <= j

\* a filter that also drops slot 0, as filter((t, i) => t && i) would
filteredTasksTruthyIndex(ts) == {i \in DOMAIN ts : ts[i].kind # "null" /\ i # 0}

\* tasksAndNull.filter((t) => t !== null), as the set of the slots kept
filteredTasks(ts) == {i \in DOMAIN ts : ts[i].kind # "null"}

\* the check written as max < 0
TooSmallBelowZero(mx) == mx < 0

\* max < 1, the caller error of line 6
TooSmall(mx) == mx < 1

Min(a, b) == IF a < b THEN a ELSE b

IsMark(item) == item.kind = "mark"

\* the keys of the mark-operations among the items numbered from+1..to of src, in order
StartedKeys(src, from, to) ==
    LET hi == Min(to, Len(src))
        ms == IF hi <= from THEN <<>> ELSE SelectSeq(SubSeq(src, from + 1, hi), IsMark)
    IN  [k \in 1..Len(ms) |-> ms[k].key]

\* the record of the fulfilment of o while the operations in flying are in flight
Fulfilment(o, flying) == [op |-> o, flying |-> flying \ {o}]

\* the sequence s of fulfilments without that of o
Without(s, o) == SelectSeq(s, LAMBDA e : e.op # o)

\* a priming loop written with i <= max
PrimedInclusive(mx) == 0..mx

\* the slots filled by the loop of lines 17-19: for (let i = 0; i < max; i++)
Primed(mx) == 0..(mx - 1)

\* the head of parallelGenerator, run by the first call of next(): lines 6-22
GenStart(src, mx) ==
    /\ source' = src
    /\ settled' = <<>>
    /\ opData' = [o \in 1..Len(src) |-> NoData]
    /\ yielded' = <<>>
    /\ IF TooSmall(mx)
       THEN /\ gpc' = "threw"
            /\ tasks' = <<>>
            /\ pulls' = 0
            /\ winner' = NoWinner
            /\ opState' = [o \in 1..Len(src) |-> "unstarted"]
            /\ requested' = FALSE
            /\ markOps' = markOps
            /\ sent' = sent
       ELSE /\ gpc' = "race1"
            /\ tasks' = [i \in Primed(mx) |-> wrap(i, SourceNext(src, i))]
            /\ pulls' = Cardinality(Primed(mx))
            /\ opState' = [o \in 1..Len(src) |->
                             IF o - 1 \in Primed(mx) THEN StartState(src[o])
                             ELSE "unstarted"]
            /\ winner' = Race(DOMAIN tasks', tasks', opState')
            /\ requested' = TRUE
            /\ markOps' = markOps \o StartedKeys(src, 0, pulls')
            /\ sent' = IF StartedKeys(src, 0, pulls') = <<>> THEN sent
                       ELSE sent \cup {"HeadObject"}

\* the consumer calls next() on the generator: the generator starts, or goes on
\* from the yield where it was suspended, up to its next await
GenNext ==
    /\ ppc \in {"consumer", "drain"}
    /\ ~requested
    /\ gpc \in {"init", "yield1", "yield2"}
    /\ CASE gpc = "init" ->
              /\ GenStart(source, max)
              /\ UNCHANGED max
         [] gpc = "yield1" ->
              /\ gpc' = "race1"
              /\ winner' = Race(DOMAIN tasks, tasks, opState)
              /\ requested' = TRUE
              /\ UNCHANGED <<max, source, pulls, tasks, opState, opData, yielded,
                             markOps, sent, settled>>
         [] gpc = "yield2" ->
              /\ IF filteredTasks(tasks) = {}
                 THEN gpc' = "done" /\ winner' = NoWinner /\ requested' = FALSE
                 ELSE gpc' = "race2"
                      /\ winner' = Race(filteredTasks(tasks), tasks, opState)
                      /\ requested' = TRUE
              /\ UNCHANGED <<max, source, pulls, tasks, opState, opData, yielded,
                             markOps, sent, settled>>
    /\ UNCHANGED <<fnVars, storeVars, runVars, failures, reported, scanned, setFailedCalls>>

\* the await of Promise.race returns [i, v]: lines 22-31 and 35-40
GenResume ==
    /\ gpc \in {"race1", "race2"}
    /\ winner # NoWinner
    /\ LET i == winner
           v == tasks[i]
           nxt == SourceNext(source, pulls)
       IN  IF gpc = "race1"
           THEN IF v.kind = "done"
                THEN \* move the tasks over to the nullable list, drop slot i
                     LET tasksAndNull == [tasks EXCEPT ![i] = NullTask]
                     IN  /\ tasks' = tasksAndNull
                         /\ IF filteredTasks(tasksAndNull) = {}
                            THEN gpc' = "done" /\ winner' = NoWinner
                                 /\ requested' = FALSE
                            ELSE gpc' = "race2"
                                 /\ winner' = Race(filteredTasks(tasksAndNull), tasksAndNull, opState)
                                 /\ requested' = requested
                         /\ UNCHANGED <<pulls, opState, yielded, markOps, sent, settled>>
                ELSE \* refill slot i from the source, then yield the value
                     /\ tasks' = Refilled(tasks, i, nxt)
                     /\ pulls' = pulls + 1
                     /\ opState' = IF nxt.done THEN opState
                                   ELSE [opState EXCEPT
                                           ![nxt.value] = StartState(source[nxt.value])]
                     /\ markOps' = markOps \o StartedKeys(source, pulls, pulls + 1)
                     /\ sent' = IF StartedKeys(source, pulls, pulls + 1) = <<>> THEN sent
                                ELSE sent \cup {"HeadObject"}
                     /\ yielded' = Append(yielded, v.op)
                     /\ settled' = Without(settled, v.op)
                     /\ gpc' = "yield1"
                     /\ winner' = NoWinner
                     /\ requested' = FALSE
           ELSE LET tasksAndNull == [tasks EXCEPT ![i] = NullTask]
                IN  /\ tasks' = tasksAndNull
                    /\ IF v.kind # "done"
                       THEN /\ yielded' = Append(yielded, v.op)
                            /\ settled' = Without(settled, v.op)
                            /\ gpc' = "yield2"
                            /\ winner' = NoWinner
                            /\ requested' = FALSE
                       ELSE /\ yielded' = yielded
                            /\ settled' = settled
                            /\ IF filteredTasks(tasksAndNull) = {}
                               THEN gpc' = "done" /\ winner' = NoWinner
                                    /\ requested' = FALSE
                               ELSE gpc' = "race2"
                                    /\ winner' = Race(filteredTasks(tasksAndNull), tasksAndNull, opState)
                                    /\ requested' = requested
                    /\ UNCHANGED <<pulls, opState, markOps, sent>>
    /\ UNCHANGED <<max, source, opData>>
    /\ UNCHANGED <<fnVars, storeVars, runVars, failures, reported, scanned, setFailedCalls>>

\* the operations in flight
InFlight == {o \in DOMAIN opState : opState[o] \in {"pending", "head", "copy"}}

\* the slot whose promise wraps operation o
SlotOf(o) == CHOOSE i \in DOMAIN tasks : tasks[i].kind = "op" /\ tasks[i].op = o

\* the promises the pending race was called on
Raced == IF gpc = "race1" THEN DOMAIN tasks ELSE filteredTasks(tasks)

\* a pending race is won by the first of its promises to resolve
WinnerAfter(o) ==
    IF /\ gpc \in {"race1", "race2"} /\ winner = NoWinner
       /\ \E i \in Raced : tasks[i].kind = "op" /\ tasks[i].op = o
    THEN SlotOf(o) ELSE winner

\* an operation of the generic kind fulfils; the callback of line 13 resolves its wrap
OpSettle(o) ==
    /\ opState[o] = "pending"
    /\ opState' = [opState EXCEPT ![o] = "fulfilled"]
    /\ winner' = WinnerAfter(o)
    /\ settled' = Append(settled, Fulfilment(o, InFlight))
    /\ UNCHANGED <<max, source, pulls, tasks, gpc, opData, yielded, requested>>
    /\ UNCHANGED <<fnVars, storeVars, runVars, histVars, failures>>

\* an operation in flight rejects: line 13 gives then() no rejection handler, so the
\* promise of wrap stays pending
OpReject(o) ==
    /\ opState[o] \in {"pending", "head", "copy"}
    /\ failures < MaxFailures
    /\ failures' = failures + 1
    /\ opState' = [opState EXCEPT ![o] = "rejected"]
    /\ UNCHANGED <<max, source, pulls, tasks, gpc, winner, opData, yielded, requested,
                   settled>>
    /\ UNCHANGED <<fnVars, storeVars, runVars, histVars>>

(***************************************************************************)
(* The object store (S3), as far as the action uses it.  Keys are strings; *)
(* a listing returns them in the binary order of their characters.         *)
(***************************************************************************)
Alphabet == <<"-", ".", "/", "0", "1", "2", "3", "4", "5", "6", "7", "8", "9",
              "a", "b", "c", "d", "e", "f", "g", "h", "i", "j", "k", "l", "m",
              "n", "o", "p", "q", "r", "s", "t", "u", "v", "w", "x", "y", "z">>

CharCode(c) == CHOOSE i \in 1..Len(Alphabet) : Alphabet[i] = c

RECURSIVE LexLess(_, _)
LexLess(a, b) ==
    IF b = <<>> THEN FALSE
    ELSE IF a = <<>> THEN TRUE
    ELSE IF a[1] = b[1] THEN LexLess(Tail(a), Tail(b))
    ELSE CharCode(a[1]) < CharCode(b[1])

IsPrefix(p, s) == Len(p) <= Len(s) /\ SubSeq(s, 1, Len(p)) = p

\* the strings of S in increasing order
RECURSIVE SortedSeq(_)
SortedSeq(S) ==
    IF S = {} THEN <<>>
    ELSE LET m == CHOOSE x \in S : \A y \in S \ {x} : LexLess(x, y)
         IN  <<m>> \o SortedSeq(S \ {m})

NoMarker == <<>>
NoDelimiter == <<>>

\* the position of the first delimiter d in s, 0 when there is none
FirstIndexOf(d, s) ==
    IF \E j \in 1..Len(s) : s[j] = d
    THEN CHOOSE j \in 1..Len(s) : s[j] = d /\ \A h \in 1..(j - 1) : s[h] # d
    ELSE 0

\* ListObjects on the store st: the keys under Prefix after Marker, keys that hold the
\* delimiter past the prefix rolled up into common prefixes, MaxKeys entries a page
ListObjects(st, req) ==
    LET matching == {k \in DOMAIN st : IsPrefix(req.Prefix, k)}
        cut(k) == IF req.Delimiter = NoDelimiter THEN 0
                  ELSE FirstIndexOf(req.Delimiter[1],
                                    SubSeq(k, Len(req.Prefix) + 1, Len(k)))
        entry(k) == IF cut(k) = 0 THEN k ELSE SubSeq(k, 1, Len(req.Prefix) + cut(k))
        rolled == {entry(k) : k \in {x \in matching : cut(x) # 0}}
        names == {entry(k) : k \in matching}
        after == {e \in names : req.Marker = NoMarker \/ LexLess(req.Marker, e)}
        sorted == SortedSeq(after)
        n == Min(req.MaxKeys, Len(sorted))
        shown == SubSeq(sorted, 1, n)
        isPrefixEntry(e) == e \in rolled
        isKeyEntry(e) == e \notin rolled
        truncated == Len(sorted) > n
    IN  [Contents |-> SelectSeq(shown, isKeyEntry),
         CommonPrefixes |-> SelectSeq(shown, isPrefixEntry),
         IsTruncated |-> truncated,
         NextMarker |-> IF truncated /\ req.Delimiter # NoDelimiter /\ n > 0
                        THEN shown[n] ELSE NoMarker]

Slash == <<"/">>
IndexHtml == <<"i", "n", "d", "e", "x", ".", "h", "t", "m", "l">>
PointerKey(folder) == folder \o Slash \o IndexHtml

OldTag == [Key |-> "old", Value |-> "true"]
OldAt == "old-at"
DefaultCacheControl == "max-age=0, stale-while-revalidate=86400"
NoCacheControl == "undefined"

\* a lookup that falls back to a default version when the field is missing
MetaFieldWithFallback(meta, name) ==
    IF \E m \in meta : m.name = name
    THEN StringVal((CHOOSE m \in meta : m.name = name).value)
    ELSE StringVal(<<"r", "u", "n", "-", "2", "-", "1">>)

\* data.Metadata?.[name], Undefined when the field is missing
MetaField(meta, name) ==
    IF \E m \in meta : m.name = name
    THEN StringVal((CHOOSE m \in meta : m.name = name).value)
    ELSE Undefined

\* (new Date()).toISOString() at logical time n
toISOString(n) == <<"t", Alphabet[3 + n]>>

(***************************************************************************)
(* The buckets and inputs the model starts from.                           *)
(***************************************************************************)
FolderName == <<"p", "r">>
BucketName == <<"d", "o", "c", "s">>
Run_1_2 == <<"r", "u", "n", "-", "1", "-", "2">>
Run_1_10 == <<"r", "u", "n", "-", "1", "-", "1", "0">>
Run_2_1 == <<"r", "u", "n", "-", "2", "-", "1">>
Tmp == <<"t", "m", "p">>
Latest == <<"l", "a", "t", "e", "s", "t">>
ChildNames == {Run_1_2, Run_1_10, Run_2_1, Tmp}

\* the f-th file of a version: odd ones at the top, even ones in a sub-directory
FileName(f) ==
    IF f % 2 = 0 THEN <<"d", "/", Alphabet[13 + f]>> ELSE <<Alphabet[13 + f]>>

ObjectKey(child, f) == FolderName \o Slash \o child \o Slash \o FileName(f)

NewObject(f) ==
    [content |-> f, contentType |-> "text/plain", cacheControl |-> NoCacheControl,
     meta |-> IF f = 1 THEN {[name |-> "custom-key", value |-> <<"v">>]} ELSE {},
     tags |-> {}]

PointerObject(meta) ==
    [content |-> 0, contentType |-> "text/html", cacheControl |-> NoCacheControl,
     meta |-> meta, tags |-> {}]

\* the pointer object: absent, without the pointer field, or naming some string
PointerChoices ==
    {[kind |-> k, value |-> <<>>] : k \in {"absent", "nofield"}}
      \cup {[kind |-> "is", value |-> s] : s \in {Run_1_10, Run_2_1, Latest}}

\* a bucket as putFiles / setPointer of the tests build it: the children in present
\* hold n files each, none of them tagged
InitialStore(present, n, ptr) ==
    LET keys == {ObjectKey(c, f) : c \in present, f \in 1..n}
        ptrKeys == IF ptr.kind = "absent" THEN {} ELSE {PointerKey(FolderName)}
        fileOf(k) == CHOOSE f \in 1..n : \E c \in present : k = ObjectKey(c, f)
    IN  [k \in keys \cup ptrKeys |->
           IF k \in ptrKeys
           THEN PointerObject(IF ptr.kind = "nofield" THEN {}
                              ELSE {[name |-> "pointer", value |-> ptr.value]})
           ELSE NewObject(fileOf(k))]

InitialStores ==
    {InitialStore(present, n, ptr) :
        present \in SUBSET ChildNames, n \in 1..MaxFiles, ptr \in PointerChoices}

Input(b, f, p) == [bucket |-> b, folder |-> f, parallel |-> p]

InputChoices ==
    {Input(BucketName, FolderName, <<"1">>), Input(BucketName, FolderName, <<"2">>),
     Input(<<"a", "b">>, FolderName, <<"2">>),
     Input(BucketName, <<"a", "/", "b">>, <<"2">>),
     Input(BucketName, FolderName, <<"0">>),
     Input(BucketName, FolderName, <<"x">>),
     Input(BucketName, FolderName, <<"1", ".", "5">>)}

(***************************************************************************)
(* Input validation (validation.ts).                                       *)
(***************************************************************************)
LowerLetters == {Alphabet[i] : i \in 14..39}
NameChars == LowerLetters \cup Digits \cup {".", "-"}

EndsWith(s, suffix) ==
    Len(suffix) <= Len(s) /\ SubSeq(s, Len(s) - Len(suffix) + 1, Len(s)) = suffix

\* four groups of digits separated by periods
IsIpShaped(s) ==
    /\ Cardinality({j \in 1..Len(s) : s[j] = "."}) = 3
    /\ \A j \in 1..Len(s) : s[j] \in Digits \cup {"."}
    /\ s # <<>> /\ s[1] # "." /\ s[Len(s)] # "."
    /\ \A j \in 1..(Len(s) - 1) : ~(s[j] = "." /\ s[j + 1] = ".")

ReservedPrefixes == {<<"x", "n", "-", "-">>, <<"s", "t", "h", "r", "e", "e", "-">>, <<"a", "m", "z", "n", "-", "s", "3", "-", "d", "e", "m", "o", "-">>}
ReservedSuffixes == {<<"-", "s", "3", "a", "l", "i", "a", "s">>, <<"-", "-", "o", "l", "-", "s", "3">>, <<".", "m", "r", "a", "p">>,
                     <<"-", "-", "x", "-", "s", "3">>, <<"-", "-", "t", "a", "b", "l", "e", "-", "s", "3">>}

isValidGeneralPurposeBucketName(s) ==
    /\ Len(s) >= 3 /\ Len(s) <= 63
    /\ \A j \in 1..Len(s) : s[j] \in NameChars
    /\ s[1] \in LowerLetters \cup Digits
    /\ s[Len(s)] \in LowerLetters \cup Digits
    /\ \A j \in 1..(Len(s) - 1) : ~(s[j] = "." /\ s[j + 1] = ".")
    /\ ~IsIpShaped(s)
    /\ \A q \in ReservedPrefixes : ~IsPrefix(q, s)
    /\ \A q \in ReservedSuffixes : ~EndsWith(s, q)

isValidFolder(s) ==
    /\ s # <<>>
    /\ \A j \in 1..Len(s) : s[j] \in NameChars

(***************************************************************************)
(* keyTaggedAsOld (main.ts): the two requests of a mark-operation.         *)
(***************************************************************************)
KeyOf(o) == source[o].key

\* a request whose Metadata holds old-at alone, without ...data.Metadata
CopyRequestOldAtOnly(data, now) ==
    [type |-> "copy",
     ContentType |-> data.contentType,
     CacheControl |-> IF data.cacheControl = NoCacheControl
                      THEN DefaultCacheControl ELSE data.cacheControl,
     Metadata |-> {[name |-> OldAt, value |-> toISOString(now)]},
     Tagging |-> {OldTag}]

\* the CopyObjectCommand of lines 28-41, built from the answer data of HeadObject at
\* the time now: old-at of the spread is overwritten by the new old-at
CopyRequest(data, now) ==
    [type |-> "copy",
     ContentType |-> data.contentType,
     CacheControl |-> IF data.cacheControl = NoCacheControl
                      THEN DefaultCacheControl ELSE data.cacheControl,
     Metadata |-> {m \in data.meta : m.name # OldAt}
                    \cup {[name |-> OldAt, value |-> toISOString(now)]},
     Tagging |-> {OldTag}]

\* the HeadObject of line 23 answers; the CopyObject of line 28 is built and sent
KeyHead(o) ==
    /\ opState[o] = "head"
    /\ opData' = [opData EXCEPT ![o] = CopyRequest(store[KeyOf(o)], runNo)]
    /\ opState' = [opState EXCEPT ![o] = "copy"]
    /\ sent' = sent \cup {"CopyObject"}
    /\ UNCHANGED <<max, source, pulls, tasks, gpc, winner, yielded, requested,
                   settled>>
    /\ UNCHANGED <<fnVars, storeVars, runVars, failures, markOps, reported, scanned,
                   setFailedCalls>>

\* a copy whose TaggingDirective is left at COPY: the tags stay as they were
CopiedKeepingTags(obj, req) ==
    [content |-> obj.content, contentType |-> req.ContentType,
     cacheControl |-> req.CacheControl, meta |-> req.Metadata, tags |-> obj.tags]

\* the object as CopyObject with REPLACE directives leaves it: the content is copied,
\* everything else comes from the request
Copied(obj, req) ==
    [content |-> obj.content, contentType |-> req.ContentType,
     cacheControl |-> req.CacheControl, meta |-> req.Metadata, tags |-> req.Tagging]

\* the CopyObject answers: the store holds the rewritten object, the operation fulfils
KeyCopy(o) ==
    /\ opState[o] = "copy"
    /\ store' = [store EXCEPT ![KeyOf(o)] = Copied(@, opData[o])]
    /\ opState' = [opState EXCEPT ![o] = "fulfilled"]
    /\ winner' = WinnerAfter(o)
    /\ settled' = Append(settled, Fulfilment(o, InFlight))
    /\ UNCHANGED <<max, source, pulls, tasks, gpc, opData, yielded, requested>>
    /\ UNCHANGED <<fnVars, inputs, runVars, histVars, failures>>

(***************************************************************************)
(* run, main, tagOldVersions, listVersions, isPrefixTaggedAsOld and        *)
(* prefixTaggedAsOld (main.ts).  ppc names the await at which the run is   *)
(* suspended; an action is the code from one await to the next.            *)
(***************************************************************************)
IdleTasks == <<>>
NoCall == [fn |-> "none"]
NoPage == [IsTruncated |-> FALSE, marker |-> NoMarker]

GenIdle ==
    /\ max' = 0 /\ source' = <<>> /\ pulls' = 0 /\ tasks' = IdleTasks
    /\ gpc' = "none" /\ winner' = NoWinner /\ opState' = <<>> /\ opData' = <<>>
    /\ yielded' = <<>> /\ requested' = FALSE
    /\ settled' = <<>>

\* the catch of run(): the error goes to core.setFailed, once
Fail ==
    /\ runState' = "failed"
    /\ ppc' = "end"
    /\ setFailedCalls' = setFailedCalls + 1

PrefixOf(v) == inputs.folder \o Slash \o v.version \o Slash

\* the filter written with <= 0
IsOlderOrCurrent(v) == compareVersions(v, currentVersion) <= 0

IsOlder(v) == compareVersions(v, currentVersion) < 0

\* the for loop of tagOldVersions reaches version k of older: isPrefixTaggedAsOld
\* sends its listing, or the loop, tagOldVersions, main and run end
ForLoop(older, k, sentSoFar) ==
    /\ vIdx' = k
    /\ IF k > Len(older)
       THEN /\ runState' = "succeeded"
            /\ ppc' = "end"
            /\ sent' = sentSoFar
       ELSE /\ runState' = runState
            /\ ppc' = "await_first"
            /\ sent' = sentSoFar \cup {"ListObjects"}

\* prefixTaggedAsOld begins for the prefix of the version at hand: first listing sent
StartPrefix ==
    /\ scanned' = Append(scanned, PrefixOf(olderVersions[vIdx]))
    /\ marker' = NoMarker
    /\ sent' = sent \cup {"ListObjects"}
    /\ ppc' = "await_objects"

\* run -> main: the three inputs are read and checked, the client is made, and
\* tagOldVersions sends the HeadObject of the pointer
Main ==
    /\ runState = "running" /\ ppc = "start"
    /\ IF /\ isValidGeneralPurposeBucketName(inputs.bucket)
          /\ isValidFolder(inputs.folder)
          /\ ~(parseInt(inputs.parallel) = NaN \/ parseInt(inputs.parallel) < 1)
       THEN /\ clientCreated' = TRUE
            /\ parallel' = parseInt(inputs.parallel)
            /\ sent' = sent \cup {"HeadObject"}
            /\ ppc' = "await_ptr"
            /\ UNCHANGED <<runState, setFailedCalls>>
       ELSE /\ Fail
            /\ UNCHANGED <<clientCreated, parallel, sent>>
    /\ UNCHANGED <<fnVars, storeVars, runNo, currentVersion, versions, olderVersions, vIdx,
                   firstKey, marker, page, prevOutcome, failures, markOps, reported,
                   scanned, genVars>>

\* the HeadObject of the pointer answers: lines 148-157
TagPointerHead ==
    /\ runState = "running" /\ ppc = "await_ptr"
    /\ LET key == PointerKey(inputs.folder)
           found == key \in DOMAIN store
           pointer == IF found THEN MetaField(store[key].meta, "pointer") ELSE Undefined
           cv == extractVersion(pointer)
       IN  IF found /\ cv # Undefined
           THEN /\ currentVersion' = cv
                /\ versions' = <<>>
                /\ marker' = NoMarker
                /\ sent' = sent \cup {"ListObjects"}
                /\ ppc' = "await_versions"
                /\ UNCHANGED <<runState, setFailedCalls>>
           ELSE /\ Fail
                /\ UNCHANGED <<currentVersion, versions, marker, sent>>
    /\ UNCHANGED <<fnVars, storeVars, runNo, clientCreated, parallel, olderVersions, vIdx,
                   firstKey, page, prevOutcome, failures, markOps, reported, scanned,
                   genVars>>

\* a trim that keeps the closing delimiter, as slice(folder.length + 1) would
trimPrefixKeepsSlash(folder, c) == SubSeq(c, Len(folder) + 2, Len(c))

\* c.Prefix.slice(folder.length + 1, -1) of line 121
trimPrefix(folder, c) == SubSeq(c, Len(folder) + 2, Len(c) - 1)

IsVersion(v) == v # Undefined

\* the versions a page of common prefixes names: trimPrefix, extractVersion, filter
PageVersions(folder, prefixes) ==
    SelectSeq([k \in 1..Len(prefixes) |->
                 extractVersion(StringVal(trimPrefix(folder, prefixes[k])))],
              IsVersion)

\* a filter followed by a sort into the order of the versions
olderInVersionOrder(vs) ==
    SortSeq(SelectSeq(vs, IsOlder), LAMBDA a, b : compareVersions(a, b) < 0)

\* versionPrefixes.filter((v) => compareVersions(v, currentVersion) < 0) of line 159
older(vs) == SelectSeq(vs, IsOlder)

\* a page of listVersions answers: lines 130-138, then 158-162 after the last page
ListVersionsPage ==
    /\ runState = "running" /\ ppc = "await_versions"
    /\ LET data == ListObjects(store, [Prefix |-> inputs.folder \o Slash,
                                       Delimiter |-> Slash, Marker |-> marker,
                                       MaxKeys |-> PageSize])
           all == versions \o PageVersions(inputs.folder, data.CommonPrefixes)
       IN  /\ versions' = all
           /\ marker' = data.NextMarker
           /\ IF data.IsTruncated
              THEN /\ sent' = sent \cup {"ListObjects"}
                   /\ UNCHANGED <<olderVersions, vIdx, runState, ppc>>
              ELSE /\ olderVersions' = older(all)
                   /\ ForLoop(olderVersions', 1, sent)
    /\ UNCHANGED <<fnVars, storeVars, runNo, clientCreated, parallel, currentVersion, firstKey,
                   page, prevOutcome, failures, markOps, reported, scanned,
                   setFailedCalls, genVars>>

\* the one-key listing of isPrefixTaggedAsOld answers: lines 107-108
PrefixFirstKey ==
    /\ runState = "running" /\ ppc = "await_first"
    /\ LET list == ListObjects(store, [Prefix |-> PrefixOf(olderVersions[vIdx]),
                                       Delimiter |-> NoDelimiter, Marker |-> NoMarker,
                                       MaxKeys |-> 1])
       IN  IF list.Contents = <<>>
           THEN /\ StartPrefix
                /\ UNCHANGED firstKey
           ELSE /\ firstKey' = list.Contents[1]
                /\ sent' = sent \cup {"GetObjectTagging"}
                /\ ppc' = "await_tags"
                /\ UNCHANGED <<scanned, marker>>
    /\ UNCHANGED <<fnVars, storeVars, runNo, runState, clientCreated, parallel, currentVersion,
                   versions, olderVersions, vIdx, page, prevOutcome, failures, markOps,
                   reported, setFailedCalls, genVars>>

\* a test of the tag key alone
someTagIsOldByKey(tagSet) == \E tag \in tagSet : tag.Key = "old"

\* a test for the value 1 in place of true
someTagIsOldValueOne(tagSet) == \E tag \in tagSet : tag.Key = "old" /\ tag.Value = "1"

\* tags.TagSet?.some((tag) => tag.Key === 'old' && tag.Value === 'true') of line 55
someTagIsOld(tagSet) == \E tag \in tagSet : tag.Key = "old" /\ tag.Value = "true"

\* the GetObjectTagging of isKeyTaggedAsOld answers: line 55, then 162-165
KeyTags ==
    /\ runState = "running" /\ ppc = "await_tags"
    /\ IF someTagIsOld(store[firstKey].tags)
       THEN /\ reported' = reported \cup {PrefixOf(olderVersions[vIdx])}
            /\ ForLoop(olderVersions, vIdx + 1, sent)
            /\ UNCHANGED <<scanned, marker>>
       ELSE /\ StartPrefix
            /\ UNCHANGED <<reported, vIdx, runState>>
    /\ UNCHANGED <<fnVars, storeVars, runNo, clientCreated, parallel, currentVersion, versions,
                   olderVersions, firstKey, page, prevOutcome, failures, markOps,
                   setFailedCalls, genVars>>

\* a tagger whose loop stops one object short
taggerOneShort(contents) == [k \in 1..(Len(contents) - 1) |-> MarkItem(contents[k])]

\* a tagger that yields the operation of every object twice
taggerTwice(contents) ==
    [k \in 1..(2 * Len(contents)) |-> MarkItem(contents[(k + 1) \div 2])]

\* tagger(data): one mark-operation for each listed object
tagger(contents) == [k \in 1..Len(contents) |-> MarkItem(contents[k])]

\* a marker taken from the first key of the page, as at(0) would
nextMarkerFirstKey(data) ==
    IF data.NextMarker # NoMarker THEN data.NextMarker
    ELSE IF Len(data.Contents) > 0 THEN data.Contents[1] ELSE NoMarker

\* data.NextMarker ?? data.Contents?.at(-1)?.Key of line 92
nextMarker(data) ==
    IF data.NextMarker # NoMarker THEN data.NextMarker
    ELSE IF Len(data.Contents) > 0 THEN data.Contents[Len(data.Contents)] ELSE NoMarker

\* a page of prefixTaggedAsOld answers: the scheduler is made over tagger(data) and
\* its first next() runs the scheduler up to its first await: lines 85-86
PrefixObjectsPage ==
    /\ runState = "running" /\ ppc = "await_objects"
    /\ LET data == ListObjects(store, [Prefix |-> PrefixOf(olderVersions[vIdx]),
                                       Delimiter |-> NoDelimiter, Marker |-> marker,
                                       MaxKeys |-> PageSize])
       IN  /\ page' = [IsTruncated |-> data.IsTruncated, marker |-> nextMarker(data)]
           /\ max' = parallel
           /\ GenStart(tagger(data.Contents), parallel)
    /\ ppc' = "drain"
    /\ UNCHANGED <<fnVars, storeVars, runNo, runState, clientCreated, parallel, currentVersion,
                   versions, olderVersions, vIdx, firstKey, marker, prevOutcome,
                   failures, reported, scanned, setFailedCalls>>

\* a drain that stops at the first result, as an if in place of the while would
DrainEndedAtFirstResult(g) == g \in {"done", "threw", "yield1", "yield2"}

\* the loop of lines 86-89 ends: tasks.next() has answered done, or has thrown
DrainEnded(g) == g \in {"done", "threw"}

\* tasks.next() answers done (or throws): lines 87-93, then the next page or version
PrefixPageDrained ==
    /\ runState = "running" /\ ppc = "drain"
    /\ DrainEnded(gpc)
    /\ IF gpc = "threw"
       THEN /\ Fail
            /\ UNCHANGED <<marker, vIdx, sent>>
       ELSE /\ marker' = page.marker
            /\ UNCHANGED setFailedCalls
            /\ IF page.IsTruncated
               THEN /\ sent' = sent \cup {"ListObjects"}
                    /\ ppc' = "await_objects"
                    /\ UNCHANGED <<vIdx, runState>>
               ELSE ForLoop(olderVersions, vIdx + 1, sent)
    /\ GenIdle
    /\ UNCHANGED <<fnVars, storeVars, runNo, clientCreated, parallel, currentVersion, versions,
                   olderVersions, firstKey, page, prevOutcome, failures, markOps,
                   reported, scanned>>

\* a request of the orchestration fails: client.send rejects, nothing catches it
\* before run()
RequestFails ==
    /\ runState = "running"
    /\ ppc \in {"await_ptr", "await_versions", "await_first", "await_tags",
                "await_objects"}
    /\ failures < MaxFailures
    /\ failures' = failures + 1
    /\ Fail
    /\ UNCHANGED <<fnVars, storeVars, runNo, clientCreated, parallel, currentVersion, versions,
                   olderVersions, vIdx, firstKey, marker, page, prevOutcome, sent,
                   markOps, reported, scanned, genVars>>

\* the run waits on a race that no promise can win any more
RunBlocked ==
    /\ runState = "running" /\ ppc = "drain"
    /\ gpc \in {"race1", "race2"} /\ winner = NoWinner
    /\ InFlight = {}

RunStart ==
    /\ runState' = "running" /\ ppc' = "start" /\ clientCreated' = FALSE
    /\ parallel' = 0 /\ currentVersion' = Undefined /\ versions' = <<>>
    /\ olderVersions' = <<>> /\ vIdx' = 0 /\ firstKey' = <<>> /\ marker' = NoMarker
    /\ page' = NoPage
    /\ sent' = {} /\ markOps' = <<>> /\ reported' = {} /\ scanned' = <<>>
    /\ setFailedCalls' = 0

\* the action is run again on the same bucket, after the run before has ended or
\* has come to a halt with nothing left to wake it
NextRun ==
    /\ runNo < MaxRuns
    /\ ppc # "consumer"
    /\ runState # "running" \/ RunBlocked
    /\ runNo' = runNo + 1
    /\ prevOutcome' = IF runState = "running" THEN "blocked" ELSE runState
    /\ RunStart
    /\ GenIdle
    /\ UNCHANGED <<fnVars, storeVars, failures>>

(***************************************************************************)
(* The specifications.                                                     *)
(***************************************************************************)
\* a run of the action against a bucket
Init ==
    /\ store \in InitialStores
    /\ inputs \in InputChoices
    /\ runNo = 1 /\ prevOutcome = "none" /\ failures = 0
    /\ runState = "running" /\ ppc = "start" /\ clientCreated = FALSE
    /\ parallel = 0 /\ currentVersion = Undefined /\ versions = <<>>
    /\ olderVersions = <<>> /\ vIdx = 0 /\ firstKey = <<>> /\ marker = NoMarker
    /\ page = NoPage
    /\ sent = {} /\ markOps = <<>> /\ reported = {} /\ scanned = <<>>
    /\ setFailedCalls = 0
    /\ max = 0 /\ source = <<>> /\ pulls = 0 /\ tasks = IdleTasks
    /\ gpc = "none" /\ winner = NoWinner /\ opState = <<>> /\ opData = <<>>
    /\ yielded = <<>> /\ requested = FALSE
    /\ settled = <<>>
    /\ call = NoCall /\ ret = <<>>

Next ==
    \/ Main
    \/ TagPointerHead
    \/ ListVersionsPage
    \/ PrefixFirstKey
    \/ KeyTags
    \/ PrefixObjectsPage
    \/ GenNext
    \/ GenResume
    \/ \E o \in DOMAIN opState : KeyHead(o)
    \/ \E o \in DOMAIN opState : KeyCopy(o)
    \/ \E o \in DOMAIN opState : OpReject(o)
    \/ PrefixPageDrained
    \/ RequestFails
    \/ NextRun

Spec == Init /\ [][Next]_vars

\* parallelGenerator alone, over a source of generic operations and a consumer that
\* calls next() whenever it likes
SchedInit ==
    /\ store = <<>>
    /\ inputs = Input(BucketName, FolderName, <<"1">>)
    /\ runNo = 1 /\ prevOutcome = "none" /\ failures = 0
    /\ runState = "idle" /\ ppc = "consumer" /\ clientCreated = FALSE
    /\ parallel = 0 /\ currentVersion = Undefined /\ versions = <<>>
    /\ olderVersions = <<>> /\ vIdx = 0 /\ firstKey = <<>> /\ marker = NoMarker
    /\ page = NoPage
    /\ sent = {} /\ markOps = <<>> /\ reported = {} /\ scanned = <<>>
    /\ setFailedCalls = 0
    /\ max \in 0..MaxMax
    /\ \E n \in 0..MaxOps : 
         /\ source = [k \in 1..n |-> TaskItem(k)]
         /\ opState = [k \in 1..n |-> "unstarted"]
         /\ opData = [k \in 1..n |-> NoData]
    /\ pulls = 0 /\ tasks = IdleTasks
    /\ gpc = "init" /\ winner = NoWinner
    /\ yielded = <<>> /\ requested = FALSE
    /\ settled = <<>>
    /\ call = NoCall /\ ret = <<>>

SchedNext ==
    \/ GenNext
    \/ GenResume
    \/ \E o \in DOMAIN opState : OpSettle(o)
    \/ \E o \in DOMAIN opState : OpReject(o)

SchedSpec == SchedInit /\ [][SchedNext]_vars

\* the scheduler with a consumer that keeps pulling and operations that settle
SchedFairSpec ==
    /\ SchedSpec
    /\ WF_vars(GenNext)
    /\ WF_vars(GenResume)
    /\ \A o \in 1..MaxOps : WF_vars(o \in DOMAIN opState /\ OpSettle(o))

(***************************************************************************)
(* The claims about parallelGenerator.                                     *)
(***************************************************************************)
\* the operations pulled from the source so far
Pulled == 1..Min(pulls, Len(source))

\* the slots that hold operation o
SlotsHolding(o) == {i \in DOMAIN tasks : tasks[i].kind = "op" /\ tasks[i].op = o}

Range(s) == {s[j] : j \in 1..Len(s)}

\* C1: with max >= 1 the operations pulled and not yet settled are at most max, each
\* of them is held by exactly one of the max slots, and no operation is in flight
\* without having been pulled
C1_AtMostMaxInFlight ==
    max >= 1 =>
      /\ Cardinality(InFlight) <= max
      /\ InFlight \subseteq Pulled
      /\ DOMAIN tasks \subseteq 0..(max - 1)
      /\ \A o \in InFlight : Cardinality(SlotsHolding(o)) = 1

\* all max slots are busy after a slot has been refilled
C1_Witness ==
    /\ ppc = "consumer" /\ max >= 2
    /\ Cardinality(InFlight) = max
    /\ Len(yielded) >= 1

\* C2: no operation is yielded twice, every yielded value is the result of a pulled
\* operation that has fulfilled, and on completion every pulled operation has been
\* yielded
C2_NoDropNoDuplicate ==
    /\ \A j, k \in 1..Len(yielded) : j # k => yielded[j] # yielded[k]
    /\ \A j \in 1..Len(yielded) :
         yielded[j] \in Pulled /\ opState[yielded[j]] = "fulfilled"
    /\ gpc = "done" => Range(yielded) = Pulled

\* the scheduler has completed over a source longer than max, in another order than
\* the source's
C2_Witness ==
    /\ ppc = "consumer" /\ gpc = "done"
    /\ Len(source) > max /\ max >= 2
    /\ Len(yielded) = Len(source)
    /\ \E j \in 1..(Len(yielded) - 1) : yielded[j] > yielded[j + 1]

\* C3: with max >= 1, operations that all resolve and a consumer that keeps pulling,
\* the scheduler completes having yielded one result for each operation of the
\* source; a run in which an operation rejects is outside the claim
C3_Completes ==
    <>(\/ max < 1
       \/ \E o \in DOMAIN opState : opState[o] = "rejected"
       \/ gpc = "done" /\ Len(yielded) = Len(source))

\* a source shorter than max has been run to completion
C3_Witness ==
    /\ ppc = "consumer" /\ gpc = "done"
    /\ Len(source) = 2 /\ max = 5
    /\ Len(yielded) = 2

\* C4: the failure of an operation reaches the consumer: once every operation that was
\* started has settled, the scheduler is not left waiting for a promise
C4_FailureSurfaced ==
    (/\ \E o \in DOMAIN opState : opState[o] = "rejected"
     /\ InFlight = {}
     /\ gpc \in {"race1", "race2"})
      => winner # NoWinner

\* C5: with max < 1 the scheduler throws on its first next(): the source is never
\* pulled, no operation starts and nothing is yielded
C5_TooSmallRunsNothing ==
    max < 1 =>
      /\ gpc \in {"init", "threw"}
      /\ pulls = 0
      /\ tasks = IdleTasks
      /\ \A o \in DOMAIN opState : opState[o] = "unstarted"
      /\ yielded = <<>>
      /\ ~requested

\* the scheduler has thrown over a source that holds operations
C5_Witness ==
    /\ ppc = "consumer" /\ max < 1
    /\ gpc = "threw"
    /\ Len(source) >= 1

(***************************************************************************)
(* The claims about the retention pipeline.                                *)
(***************************************************************************)
\* a is strictly less than b in the order of (run, attempt)
StrictlyOlder(a, b) == a.run < b.run \/ (a.run = b.run /\ a.attempt < b.attempt)

\* the object has been rewritten by a mark-operation
Mutated(obj) == obj.tags # {} \/ \E m \in obj.meta : m.name = "old-at"

\* the object carries the tag old=true and the old-at field
MarkedOld(obj) ==
    /\ [Key |-> "old", Value |-> "true"] \in obj.tags
    /\ \E m \in obj.meta : m.name = "old-at"

\* the metadata of the pointer object the run looks at, empty when it is absent
PointerMeta ==
    IF PointerKey(inputs.folder) \in DOMAIN store
    THEN store[PointerKey(inputs.folder)].meta ELSE {}

\* the pointer object is there and its pointer field parses as a Version
PointerUsable ==
    \E m \in PointerMeta :
       m.name = "pointer" /\ extractVersion(StringVal(m.value)) # Undefined

\* the key lies under folder/<child>/ and child is a version strictly older than the
\* one the pointer names
UnderOlderVersion(k) ==
    \E c \in ChildNames, m \in PointerMeta :
       /\ m.name = "pointer"
       /\ IsPrefix(inputs.folder \o Slash \o c \o Slash, k)
       /\ LET v == extractVersion(StringVal(c))
              cur == extractVersion(StringVal(m.value))
          IN  v # Undefined /\ cur # Undefined /\ StrictlyOlder(v, cur)

\* C6: every mark-operation issued targets a key under folder/<identifier>/ of a
\* listed version strictly less than current, and no object outside the prefixes of
\* strictly older versions (the pointer object included) is ever rewritten
C6_OnlyOlderVersionsMarked ==
    /\ \A j \in 1..Len(markOps) :
         \E i \in 1..Len(versions) :
            /\ StrictlyOlder(versions[i], currentVersion)
            /\ IsPrefix(inputs.folder \o Slash \o versions[i].version \o Slash,
                        markOps[j])
    /\ \A k \in DOMAIN store : Mutated(store[k]) => UnderOlderVersion(k)

\* a run has marked objects in a folder that also holds the current or a newer version
C6_Witness ==
    /\ runState = "succeeded"
    /\ Len(markOps) >= 2
    /\ \E k \in DOMAIN store : Mutated(store[k])
    /\ \E i \in 1..Len(versions) : ~StrictlyOlder(versions[i], currentVersion)

\* C7: when a run has succeeded, every object under the prefix of every listed
\* version strictly older than current whose prefix was not reported as marked
\* carries the tag old=true and the old-at field
C7_OlderVersionsMarked ==
    runState = "succeeded" =>
      \A i \in 1..Len(versions) :
         (/\ StrictlyOlder(versions[i], currentVersion)
          /\ PrefixOf(versions[i]) \notin reported)
           => \A k \in DOMAIN store :
                 IsPrefix(PrefixOf(versions[i]), k) => MarkedOld(store[k])

\* a run has succeeded after marking a prefix that spans more than one listing page
C7_Witness ==
    /\ runState = "succeeded" /\ reported = {}
    /\ \E i \in 1..Len(versions) :
          /\ StrictlyOlder(versions[i], currentVersion)
          /\ Cardinality({k \in DOMAIN store : IsPrefix(PrefixOf(versions[i]), k)})
               > PageSize
    /\ Len(markOps) > PageSize

\* C8: in a run that follows a successful run on the unchanged bucket no
\* mark-operation is issued and no prefix is scanned, and when it ends every strictly
\* older prefix has been reported as marked
C8_SecondRunMarksNothing ==
    prevOutcome = "succeeded" =>
      /\ markOps = <<>>
      /\ scanned = <<>>
      /\ "CopyObject" \notin sent
      /\ ppc \notin {"await_objects", "drain"}
      /\ runState = "succeeded" =>
           \A i \in 1..Len(versions) :
              StrictlyOlder(versions[i], currentVersion)
                => PrefixOf(versions[i]) \in reported

\* a second run has ended after skipping two prefixes that the first run marked
C8_Witness ==
    /\ prevOutcome = "succeeded" /\ runState = "succeeded"
    /\ Cardinality(reported) >= 2
    /\ \E k \in DOMAIN store : Mutated(store[k])

\* C9: without a usable pointer (the pointer object absent, its pointer field missing
\* or not a Version) the run fails: no listing is sent, no version is listed, no
\* mark-operation is issued and no object is rewritten
C9_NoPointerNoWork ==
    ~PointerUsable =>
      /\ runState # "succeeded"
      /\ ppc \in {"start", "await_ptr", "end"}
      /\ ppc = "end" => runState = "failed" /\ setFailedCalls = 1
      /\ sent \subseteq {"HeadObject"}
      /\ versions = <<>>
      /\ markOps = <<>>
      /\ \A k \in DOMAIN store : ~Mutated(store[k])

\* a run has failed on a pointer field that is there and is not a Version, in a folder
\* that holds versions
C9_Witness ==
    /\ runState = "failed" /\ clientCreated /\ failures = 0
    /\ \E m \in PointerMeta : m.name = "pointer"
    /\ ~PointerUsable
    /\ \E k \in DOMAIN store : IsPrefix(PrefixOf([version |-> Run_1_2]), k)

\* C10: a run ends in one of two outcomes, success with no failure reported or one
\* reported failure: it is never left waiting with nothing that can wake it
C10_RunEndsOrFails ==
    /\ ~RunBlocked
    /\ runState = "succeeded" => setFailedCalls = 0
    /\ runState = "failed" => setFailedCalls = 1

(***************************************************************************)
(* The claims about the inputs and about version.ts.                       *)
(***************************************************************************)
\* s is the decimal numeral of an integer that is at least 1
IsIntegerAtLeastOne(s) ==
    /\ s # <<>>
    /\ \A j \in 1..Len(s) : s[j] \in Digits
    /\ \E j \in 1..Len(s) : s[j] # "0"

InputsValid ==
    /\ isValidGeneralPurposeBucketName(inputs.bucket)
    /\ isValidFolder(inputs.folder)
    /\ IsIntegerAtLeastOne(inputs.parallel)

\* C11: with an invalid bucket, folder or parallel input (a parallel that is not an
\* integer of at least 1 included) the run fails before the client is made and
\* before any request is sent to the store
C11_InvalidInputFailsBeforeIO ==
    ~InputsValid =>
        /\ ~clientCreated
        /\ sent = {}
        /\ runState # "succeeded"
        /\ ppc = "end" => runState = "failed" /\ setFailedCalls = 1

(***************************************************************************)
(* version.ts on its own: a function is called on inputs drawn from a      *)
(* bounded set, and the results are kept in ret.                           *)
(***************************************************************************)
\* nothing else runs
Quiet ==
    /\ store = <<>>
    /\ inputs = Input(BucketName, FolderName, <<"1">>)
    /\ runNo = 1 /\ prevOutcome = "none" /\ failures = 0
    /\ runState = "idle" /\ ppc = "end" /\ clientCreated = FALSE
    /\ parallel = 0 /\ currentVersion = Undefined /\ versions = <<>>
    /\ olderVersions = <<>> /\ vIdx = 0 /\ firstKey = <<>> /\ marker = NoMarker
    /\ page = NoPage
    /\ sent = {} /\ markOps = <<>> /\ reported = {} /\ scanned = <<>>
    /\ setFailedCalls = 0
    /\ max = 0 /\ source = <<>> /\ pulls = 0 /\ tasks = IdleTasks
    /\ gpc = "none" /\ winner = NoWinner /\ opState = <<>> /\ opData = <<>>
    /\ yielded = <<>> /\ requested = FALSE
    /\ settled = <<>>

DigitChar(d) == Alphabet[d + 4]

\* the decimal numeral of n, as `${n}` writes it
RECURSIVE Numeral(_)
Numeral(n) ==
    IF n < 10 THEN <<DigitChar(n)>> ELSE Numeral(n \div 10) \o <<DigitChar(n % 10)>>

RunPrefix == <<"r", "u", "n", "-">>
Dash == <<"-">>

\* `run-${run}-${attempt}`, the run written with pad leading zeros
VersionString(r, t, pad) ==
    RunPrefix \o [k \in 1..pad |-> "0"] \o Numeral(r) \o Dash \o Numeral(t)

Ordinals == (0..MaxOrdinal) \cup {10}

\* the Versions compared: each is what extractVersion returns for its string
VersionInputs(pads) ==
    {extractVersion(StringVal(VersionString(r, t, pad))) :
        r \in Ordinals, t \in Ordinals, pad \in pads}

CompareInit ==
    /\ Quiet
    /\ \E a \in VersionInputs({0}), b \in VersionInputs({0, 1}), c \in VersionInputs({0}) :
         call = [fn |-> "compareVersions", a |-> a, b |-> b, c |-> c]
    /\ ret = <<>>

\* compareVersions is called on the pairs of the three Versions
CompareStep ==
    /\ call.fn = "compareVersions" /\ ret = <<>>
    /\ ret' = <<[ab |-> compareVersions(call.a, call.b),
                 ba |-> compareVersions(call.b, call.a),
                 bc |-> compareVersions(call.b, call.c),
                 ac |-> compareVersions(call.a, call.c),
                 aa |-> compareVersions(call.a, call.a)]>>
    /\ UNCHANGED <<call, storeVars, runVars, histVars, failures, genVars>>

CompareSpec == CompareInit /\ [][CompareStep]_vars

Sign(n) == IF n < 0 THEN 0 - 1 ELSE IF n > 0 THEN 1 ELSE 0

\* the order of the pairs (run, attempt), run first
PairSign(a, b) ==
    IF a.run < b.run THEN 0 - 1
    ELSE IF a.run > b.run THEN 1
    ELSE IF a.attempt < b.attempt THEN 0 - 1
    ELSE IF a.attempt > b.attempt THEN 1
    ELSE 0

\* C12: compareVersions is a three-way comparator: its sign is that of the order of
\* (run, attempt) with run first, it is 0 exactly for equal (run, attempt) whatever
\* the identifiers are, it is antisymmetric and transitive, and a lower run
\* compares less whatever the attempts are
C12_ThreeWayComparator ==
    (call.fn = "compareVersions" /\ ret # <<>>) =>
        LET a == call.a
            b == call.b
            c == call.c
            r == ret[1]
        IN  /\ Sign(r.ab) = PairSign(a, b)
            /\ Sign(r.bc) = PairSign(b, c)
            /\ r.ab = 0 <=> (a.run = b.run /\ a.attempt = b.attempt)
            /\ r.aa = 0
            /\ Sign(r.ba) = 0 - Sign(r.ab)
            /\ (r.ab <= 0 /\ r.bc <= 0) => r.ac <= 0
            /\ (r.ab < 0 /\ r.bc <= 0) => r.ac < 0
            /\ (r.ab <= 0 /\ r.bc < 0) => r.ac < 0
            /\ a.run < b.run => r.ab < 0

\* a lower run with a higher attempt has compared less, and two Versions with
\* different identifiers and the same numbers have compared equal
C12_Witness ==
    /\ call.fn = "compareVersions" /\ ret # <<>>
    /\ call.a.run < call.b.run /\ call.a.attempt > call.b.attempt
    /\ ret[1].ab < 0
    /\ call.b.version # call.c.version /\ ret[1].bc = 0
    /\ call.a.run = 2 /\ call.b.run = 10

\* extractVersion on its own.  The inputs are the strings run-<digits>-<digits>, every
\* string one edit away from one of them (a character removed, replaced or added),
\* the empty string, and values that are not strings.
DigitChoices == {"0", "7"}
EditChars == {"-", ".", "+", "x", "/", "3"}

DigitGroups == UNION {[1..n -> DigitChoices] : n \in 1..MaxDigits}

WellFormed == {RunPrefix \o g1 \o Dash \o g2 : g1 \in DigitGroups, g2 \in DigitGroups}

Edits(s) ==
    LET n == Len(s)
    IN  {SubSeq(s, 1, k - 1) \o SubSeq(s, k + 1, n) : k \in 1..n}
        \cup {[s EXCEPT ![k] = c] : k \in 1..n, c \in EditChars}
        \cup {SubSeq(s, 1, k) \o <<c>> \o SubSeq(s, k + 1, n) : k \in 0..n, c \in EditChars}

StringInputs == {<<>>} \cup WellFormed \cup UNION {Edits(s) : s \in WellFormed}

NonStrings ==
    {NumberVal(123), Undefined, [type |-> "null"], [type |-> "object"], [type |-> "array"]}

ExtractInit ==
    /\ Quiet
    /\ \E x \in {StringVal(v) : v \in StringInputs} \cup NonStrings :
         call = [fn |-> "extractVersion", s |-> x]
    /\ ret = <<>>

ExtractStep ==
    /\ call.fn = "extractVersion" /\ ret = <<>>
    /\ ret' = <<extractVersion(call.s)>>
    /\ UNCHANGED <<call, storeVars, runVars, histVars, failures, genVars>>

ExtractSpec == ExtractInit /\ [][ExtractStep]_vars

AllDigits(ds) == ds # <<>> /\ \A j \in 1..Len(ds) : ds[j] \in Digits

\* v is run-<digits>-<digits> from its first to its last character, the first group
\* being n1 digits long
HasForm(v, n1) ==
    /\ Len(v) >= 6 + n1
    /\ AllDigits(SubSeq(v, 5, 4 + n1))
    /\ AllDigits(SubSeq(v, 6 + n1, Len(v)))
    /\ v = RunPrefix \o SubSeq(v, 5, 4 + n1) \o Dash \o SubSeq(v, 6 + n1, Len(v))

RECURSIVE Pow10(_)
Pow10(n) == IF n = 0 THEN 1 ELSE 10 * Pow10(n - 1)

\* the number a digit group denotes: the sum of its digits times their place values
RECURSIVE PlaceValue(_)
PlaceValue(ds) ==
    IF ds = <<>> THEN 0
    ELSE DigitVal(ds[1]) * Pow10(Len(ds) - 1) + PlaceValue(Tail(ds))

\* C13: extractVersion succeeds exactly on the strings of the whole-string form
\* run-<digits>-<digits>; it then returns a Version with every field set, whose
\* identifier is the input and whose run and attempt are the decimal values of the
\* two digit groups; for every other string and for every value that is not a
\* string it returns the failure value, never a Version in part
C13_ExtractExactlyWellFormed ==
    (call.fn = "extractVersion" /\ ret # <<>>) =>
        LET x == call.s
            r == ret[1]
        IN  IF x.type = "string" /\ \E n1 \in 1..Len(x.val) : HasForm(x.val, n1)
            THEN LET v == x.val
                     n1 == CHOOSE n1 \in 1..Len(v) : HasForm(v, n1)
                 IN  r = [type |-> "version", version |-> v,
                          run |-> PlaceValue(SubSeq(v, 5, 4 + n1)),
                          attempt |-> PlaceValue(SubSeq(v, 6 + n1, Len(v)))]
            ELSE r = Undefined

\* run-07-70 has been parsed to run 7, attempt 70
C13_Witness ==
    /\ call.fn = "extractVersion" /\ ret # <<>>
    /\ call.s = StringVal(RunPrefix \o <<"0", "7">> \o Dash \o <<"7", "0">>)
    /\ ret[1].type = "version"
    /\ ret[1].run = 7 /\ ret[1].attempt = 70

(***************************************************************************)
(* keyTaggedAsOld on its own: one object of any shape is marked, and then  *)
(* marked again; ret keeps the object after each mark and the time of it.  *)
(***************************************************************************)
MetaChoices ==
    {[name |-> "custom-key", value |-> <<"v">>], [name |-> "pointer", value |-> Run_1_2],
     [name |-> OldAt, value |-> toISOString(0)]}

TagChoices ==
    {OldTag, [Key |-> "old", Value |-> "false"], [Key |-> "keep", Value |-> "yes"]}

ObjectChoices ==
    [content : {1, 2}, contentType : {"text/plain", "text/html"},
     cacheControl : {NoCacheControl, "no-cache"},
     meta : SUBSET MetaChoices, tags : SUBSET TagChoices]

MarkInit ==
    /\ Quiet
    /\ \E obj \in ObjectChoices : call = [fn |-> "keyTaggedAsOld", obj |-> obj]
    /\ ret = <<>>

\* the object as the last mark left it, and the time of that mark
Current == IF ret = <<>> THEN call.obj ELSE ret[Len(ret)].obj
LastAt == IF ret = <<>> THEN 1 ELSE ret[Len(ret)].at

\* HeadObject, then CopyObject, on the object at some time now
MarkStep ==
    /\ call.fn = "keyTaggedAsOld" /\ Len(ret) < MaxMarks
    /\ \E now \in LastAt..MaxRuns :
         ret' = Append(ret, [obj |-> Copied(Current, CopyRequest(Current, now)),
                             at |-> now])
    /\ UNCHANGED <<call, storeVars, runVars, histVars, failures, genVars>>

MarkSpec == MarkInit /\ [][MarkStep]_vars

\* the custom metadata other than old-at
OtherMeta(obj) == {m \in obj.meta : m.name # OldAt}

\* C14: a mark-operation leaves content and content type as they were, keeps every
\* custom metadata field there was, adds old-at and sets the tags to exactly
\* {old=true}; applied a second time it yields the same tags, content and other
\* metadata, and only old-at may differ
C14_MarkPreservesAndIsIdempotent ==
    call.fn = "keyTaggedAsOld" =>
        \A k \in 1..Len(ret) :
            LET before == IF k = 1 THEN call.obj ELSE ret[k - 1].obj
                after == ret[k].obj
            IN  /\ after.content = before.content
                /\ after.contentType = before.contentType
                /\ OtherMeta(before) \subseteq after.meta
                /\ after.meta = OtherMeta(before)
                                  \cup {[name |-> OldAt, value |-> toISOString(ret[k].at)]}
                /\ after.tags = {OldTag}
                /\ k > 1 =>
                     /\ after.tags = before.tags
                     /\ after.cacheControl = before.cacheControl
                     /\ OtherMeta(after) = OtherMeta(before)
                     /\ [after EXCEPT !.meta = {}] = [before EXCEPT !.meta = {}]

\* an object with two custom fields, an old-at of its own and foreign tags has been
\* marked twice, at different times
C14_Witness ==
    /\ call.fn = "keyTaggedAsOld" /\ Len(ret) = 2
    /\ call.obj.meta = MetaChoices
    /\ call.obj.tags = {[Key |-> "old", Value |-> "false"], [Key |-> "keep", Value |-> "yes"]}
    /\ ret[1].at # ret[2].at
    /\ ret[1].obj # ret[2].obj

(***************************************************************************)
(* Further claims about parallelGenerator.                                 *)
(***************************************************************************)
\* C15: results are yielded in completion order: when two operations are in flight
\* and one fulfils strictly before the other, its result is yielded before the
\* other's, whatever their slots and their order in the source, also when the
\* consumer pulls the next result only after both have fulfilled
C15_CompletionOrder ==
    [][Len(yielded') > Len(yielded) =>
         LET b == yielded'[Len(yielded')]
         IN  \A k \in 1..Len(settled) : b \notin settled[k].flying]_vars

\* C16: refill precedes report: when the race of the first loop returns a completed
\* operation in slot i, the source is pulled once and the item pulled (started, or
\* the done signal) is put in slot i by the time the result of that operation is
\* yielded, so at every yield of the first loop one pull has been made for every
\* result reported
C16_RefillPrecedesReport ==
    /\ [](gpc = "yield1" => pulls = max + Len(yielded))
    /\ [][(gpc = "race1" /\ Len(yielded') > Len(yielded)) =>
            LET i == winner
                item == IF pulls < Len(source) THEN [kind |-> "op", op |-> pulls + 1]
                        ELSE [kind |-> "done", op |-> 0]
            IN  /\ pulls' = pulls + 1
                /\ tasks' = [tasks EXCEPT ![i] = item]
                /\ pulls < Len(source) =>
                     /\ opState[pulls + 1] = "unstarted"
                     /\ opState'[pulls + 1] \in {"pending", "head"}
                /\ yielded' = Append(yielded, tasks[i].op)
                /\ gpc' = "yield1"]_vars

\* a result has been yielded and not yet taken over by a new pull of the consumer,
\* while the operation pulled into its slot is already in flight
C16_Witness ==
    /\ gpc = "yield1" /\ yielded # <<>>
    /\ pulls > max /\ pulls <= Len(source)
    /\ opState[pulls] = "pending"
    /\ \E i \in DOMAIN tasks : tasks[i] = [kind |-> "op", op |-> pulls]
    /\ \A i \in DOMAIN tasks : tasks[i].op # yielded[Len(yielded)]

\* the slots not yet retired
Unretired(ts) == {i \in DOMAIN ts : ts[i].kind # "null"}

\* C17: tail draining: once the done signal has been seen, each wait-set holds every
\* slot not yet retired; a slot is retired only when it wins the race, its result is
\* then yielded, and it is never waited on again; the slots still waited on are left
\* as they are, and the scheduler has finished exactly when all max slots are retired
C17_TailDraining ==
    /\ [](gpc = "race2" => (Raced = Unretired(tasks) /\ Raced # {}))
    /\ [](gpc = "done" => (DOMAIN tasks = 0..(max - 1) /\ Unretired(tasks) = {}))
    /\ [][(gpc \in {"race1", "race2", "yield2"} /\ gpc' \in {"race2", "yield2", "done"}) =>
            /\ \A i \in DOMAIN tasks :
                 /\ tasks[i].kind = "null" => tasks'[i].kind = "null"
                 /\ (tasks[i].kind # "null" /\ tasks'[i].kind = "null") =>
                      /\ i = winner
                      /\ Resolved(tasks[i], opState)
                      /\ tasks[i].kind = "op" => yielded' = Append(yielded, tasks[i].op)
                 /\ (tasks[i].kind # "null" /\ tasks'[i].kind # "null") =>
                      tasks'[i] = tasks[i]
            /\ DOMAIN tasks' = DOMAIN tasks
            /\ yielded' # yielded => tasks'[winner].kind = "null"
            /\ gpc' = "done" <=> (Unretired(tasks') = {} /\ yielded' = yielded)]_vars

\* in the tail two slots are retired, the result of one of them has just been
\* yielded, and a slot with an operation in flight is still to be waited on
C17_Witness ==
    /\ gpc = "yield2" /\ max >= 3
    /\ Cardinality(DOMAIN tasks \ Unretired(tasks)) = 2
    /\ \E i \in Unretired(tasks) : tasks[i].kind = "op" /\ opState[tasks[i].op] = "pending"
    /\ yielded # <<>>

(***************************************************************************)
(* Further claims about the run.                                           *)
(***************************************************************************)
\* the prefix prefixTaggedAsOld is working on
CurrentPrefix == PrefixOf(olderVersions[vIdx])

\* the keys under prefix p, and those of them up to the key m
KeysUnder(p) == {k \in DOMAIN store : IsPrefix(p, k)}
KeysUpTo(p, m) == {k \in KeysUnder(p) : k = m \/ LexLess(k, m)}

\* C18: in prefixTaggedAsOld the listing of the next page is sent only after every
\* mark-operation made from the page before has completed and the output of the
\* scheduler for that page has been drained to its end, and the pages are asked for
\* strictly in listing order
C18_NextPageAfterDrain ==
    /\ [](ppc = "await_objects" =>
            /\ gpc = "none" /\ InFlight = {}
            /\ \A j \in 1..Len(markOps) : MarkedOld(store[markOps[j]])
            /\ marker # NoMarker =>
                 /\ marker = markOps[Len(markOps)]
                 /\ KeysUpTo(CurrentPrefix, marker)
                      = {k \in Range(markOps) : IsPrefix(CurrentPrefix, k)})
    /\ [][(ppc = "drain" /\ ppc' = "await_objects") =>
            /\ gpc = "done"
            /\ \A o \in DOMAIN opState : opState[o] = "fulfilled"
            /\ Len(yielded) = Len(source)
            /\ source # <<>>
            /\ marker' = source[Len(source)].key
            /\ marker # NoMarker => LexLess(marker, marker')]_vars

\* the listing of a second page is on its way, the first page having been marked
C18_Witness ==
    /\ ppc = "await_objects" /\ runState = "running"
    /\ marker # NoMarker
    /\ Len(markOps) = PageSize
    /\ parallel = 2
    /\ \E k \in KeysUnder(CurrentPrefix) : LexLess(marker, k) /\ ~Mutated(store[k])

\* the place of the prefix p among the prefixes of olderVersions (0 if it is not one)
OlderIndex(p) ==
    IF \E j \in 1..Len(olderVersions) : PrefixOf(olderVersions[j]) = p
    THEN CHOOSE j \in 1..Len(olderVersions) : PrefixOf(olderVersions[j]) = p
    ELSE 0

\* the place among olderVersions of the version under whose prefix the key k lies
VersionIndexOf(k) ==
    IF \E j \in 1..Len(olderVersions) : IsPrefix(PrefixOf(olderVersions[j]), k)
    THEN CHOOSE j \in 1..Len(olderVersions) : IsPrefix(PrefixOf(olderVersions[j]), k)
    ELSE 0

\* the versions of vs that are strictly older than the current one, in the order of vs
RECURSIVE KeptInOrder(_)
KeptInOrder(vs) ==
    IF vs = <<>> THEN <<>>
    ELSE IF StrictlyOlder(vs[1], currentVersion) THEN <<vs[1]>> \o KeptInOrder(Tail(vs))
    ELSE KeptInOrder(Tail(vs))

\* C19: tagOldVersions goes through the strictly older versions one at a time in the
\* order in which the listing returned them (the filter removes, it never
\* reorders): the marked-check and the mark-operations of a version start only
\* after all mark-operations of the version before have completed
C19_VersionsOneAtATimeInListingOrder ==
    /\ \A i, j \in 1..Len(versions) :
         i < j => LexLess(PrefixOf(versions[i]), PrefixOf(versions[j]))
    /\ (runState = "running" /\ vIdx >= 1) => olderVersions = KeptInOrder(versions)
    /\ \A i \in 1..Len(scanned) :
         /\ OlderIndex(scanned[i]) \in 1..vIdx
         /\ \A j \in 1..Len(scanned) : i < j => OlderIndex(scanned[i]) < OlderIndex(scanned[j])
    /\ \A p \in reported : OlderIndex(p) \in 1..vIdx /\ p \notin Range(scanned)
    /\ \A j \in 1..Len(markOps) :
         /\ VersionIndexOf(markOps[j]) \in 1..vIdx
         /\ VersionIndexOf(markOps[j]) < vIdx => MarkedOld(store[markOps[j]])
    /\ \A i, j \in 1..Len(markOps) :
         i < j => VersionIndexOf(markOps[i]) <= VersionIndexOf(markOps[j])
    /\ (runState = "running" /\ ppc \in {"await_first", "await_tags"}) =>
         /\ InFlight = {} /\ gpc = "none"
         /\ \A j \in 1..Len(markOps) :
              VersionIndexOf(markOps[j]) < vIdx /\ MarkedOld(store[markOps[j]])

\* the marked-check of the second older version is under way after the first one has
\* been marked; the listing returned run-1-10 before run-1-2
C19_Witness ==
    /\ runState = "running" /\ ppc = "await_first" /\ vIdx = 2
    /\ olderVersions[1].version = Run_1_10 /\ olderVersions[2].version = Run_1_2
    /\ markOps # <<>>
    /\ \A j \in 1..Len(markOps) : MarkedOld(store[markOps[j]])
    /\ \E k \in KeysUnder(PrefixOf(olderVersions[2])) : ~Mutated(store[k])

\* the keys of the mark-operations started under the prefix p, in order
MarkedUnder(p) == SelectSeq(markOps, LAMBDA k : IsPrefix(p, k))

\* the call of prefixTaggedAsOld for the prefix p has returned
CallReturned(p) ==
    /\ p \in Range(scanned)
    /\ OlderIndex(p) < vIdx

\* C20: prefixTaggedAsOld issues exactly one mark-operation for every object listed
\* under the prefix across all pages, none skipped and none marked twice in one
\* call, and it ends after the first page that reports no continuation, however
\* many pages there are
C20_OneMarkPerObject ==
    /\ [](\A i, j \in 1..Len(markOps) : i # j => markOps[i] # markOps[j])
    /\ [](\A i \in 1..Len(markOps) :
            \E p \in Range(scanned) : IsPrefix(p, markOps[i]) /\ markOps[i] \in DOMAIN store)
    /\ [](\A p \in Range(scanned) :
            CallReturned(p) =>
                /\ Range(MarkedUnder(p)) = KeysUnder(p)
                /\ Len(MarkedUnder(p)) = Cardinality(KeysUnder(p)))
    /\ [](ppc = "drain" =>
            /\ Range(MarkedUnder(CurrentPrefix)) \subseteq KeysUpTo(CurrentPrefix, page.marker)
            /\ gpc = "done" =>
                 Range(MarkedUnder(CurrentPrefix)) = KeysUpTo(CurrentPrefix, page.marker)
            /\ page.IsTruncated <=> KeysUpTo(CurrentPrefix, page.marker) # KeysUnder(CurrentPrefix))
    /\ [][(ppc = "drain" /\ gpc = "done" /\ ppc' # "drain") =>
            IF page.IsTruncated
            THEN ppc' = "await_objects" /\ vIdx' = vIdx
            ELSE ppc' \in {"await_first", "end"} /\ vIdx' = vIdx + 1]_vars

\* a call over two pages has returned with one mark-operation for each of the
\* objects under its prefix
C20_Witness ==
    /\ \E p \in Range(scanned) :
         /\ CallReturned(p)
         /\ Cardinality(KeysUnder(p)) > PageSize
         /\ Len(MarkedUnder(p)) = Cardinality(KeysUnder(p))
    /\ runState = "succeeded"

(***************************************************************************)
(* The claims about the listings and about partial runs.                   *)
(***************************************************************************)
\* the first-level child names of the folder: the segment between folder/ and the
\* next delimiter of the keys that have one
ChildrenOf(folder) ==
    LET base == folder \o Slash
        rest(k) == SubSeq(k, Len(base) + 1, Len(k))
    IN  {SubSeq(rest(k), 1, FirstIndexOf("/", rest(k)) - 1) :
            k \in {x \in DOMAIN store : IsPrefix(base, x) /\ FirstIndexOf("/", rest(x)) # 0}}

ParsesAsVersion(name) == \E n1 \in 1..Len(name) : HasForm(name, n1)

ChildPrefix(name) == inputs.folder \o Slash \o name \o Slash

\* the child names that parse and that a listing up to the marker m has returned
ParsedChildrenUpTo(m) ==
    {c \in ChildrenOf(inputs.folder) :
        ParsesAsVersion(c) /\ (ChildPrefix(c) = m \/ LexLess(ChildPrefix(c), m))}

ParsedChildren == {c \in ChildrenOf(inputs.folder) : ParsesAsVersion(c)}

\* listVersions has returned in this run
VersionsListed == runState \in {"running", "succeeded"} /\ vIdx >= 1

\* C21: listVersions ends after the first page that reports no continuation and
\* returns, in listing order, exactly the first-level child names of all pages that
\* parse as a Version; names that do not parse are left out without an error, and
\* no child of any page is lost or repeated
C21_ListVersionsExact ==
    /\ [](\A i \in 1..Len(versions) :
            /\ versions[i] # Undefined
            /\ versions[i] = extractVersion(StringVal(versions[i].version))
            /\ \A j \in 1..Len(versions) :
                 i < j => LexLess(ChildPrefix(versions[i].version),
                                  ChildPrefix(versions[j].version)))
    /\ []((runState = "running" /\ ppc = "await_versions") =>
            {versions[i].version : i \in 1..Len(versions)} = ParsedChildrenUpTo(marker))
    /\ [](VersionsListed =>
            /\ {versions[i].version : i \in 1..Len(versions)} = ParsedChildren
            /\ Len(versions) = Cardinality(ParsedChildren))
    /\ [][(runState = "running" /\ ppc = "await_versions" /\ failures' = failures
              /\ vars' # vars) =>
            LET data == ListObjects(store, [Prefix |-> inputs.folder \o Slash,
                                            Delimiter |-> Slash, Marker |-> marker,
                                            MaxKeys |-> PageSize])
            IN  /\ data.IsTruncated <=> ppc' = "await_versions"
                /\ runState' # "failed"]_vars

\* listVersions has returned two versions from a folder that also holds a child whose
\* name does not parse and whose listing took more than one page
C21_Witness ==
    /\ VersionsListed
    /\ Len(versions) = 2
    /\ Tmp \in ChildrenOf(inputs.folder)
    /\ Cardinality(ChildrenOf(inputs.folder)) + 1 > PageSize
    /\ PointerKey(inputs.folder) \in DOMAIN store

(***************************************************************************)
(* isPrefixTaggedAsOld on its own: tagOldVersions has come to the one      *)
(* version run-1-2, whose prefix holds any number of objects with any tags *)
(* (none at all included, as after the objects have been removed).         *)
(***************************************************************************)
CheckedVersion == extractVersion(StringVal(Run_1_2))
CheckedPrefix == FolderName \o Slash \o Run_1_2 \o Slash

TaggedObject(f, tags) == [NewObject(f) EXCEPT !.tags = tags]

\* n objects under the prefix tagged as tagging says, and maybe one object tagged
\* old under the prefix of another version
CheckStore(n, tagging, other) ==
    LET own == {ObjectKey(Run_1_2, f) : f \in 1..n}
        others == IF other THEN {ObjectKey(Run_1_10, 1)} ELSE {}
        fileOf(k) == CHOOSE f \in 1..n : k = ObjectKey(Run_1_2, f)
    IN  [k \in own \cup others |->
           IF k \in own THEN TaggedObject(fileOf(k), tagging[fileOf(k)])
           ELSE TaggedObject(1, {OldTag})]

CheckStores ==
    UNION {{CheckStore(n, tagging, other) :
               tagging \in [1..n -> SUBSET TagChoices], other \in BOOLEAN} :
           n \in 0..MaxFiles}

PrefixCheckInit ==
    /\ store \in CheckStores
    /\ inputs = Input(BucketName, FolderName, <<"1">>)
    /\ runNo = 1 /\ prevOutcome = "none" /\ failures = 0
    /\ runState = "running" /\ ppc = "await_first" /\ clientCreated = TRUE
    /\ parallel = 1 /\ currentVersion = extractVersion(StringVal(Run_2_1))
    /\ versions = <<CheckedVersion>> /\ olderVersions = <<CheckedVersion>>
    /\ vIdx = 1 /\ firstKey = <<>> /\ marker = NoMarker /\ page = NoPage
    /\ sent = {"ListObjects"} /\ markOps = <<>> /\ reported = {} /\ scanned = <<>>
    /\ setFailedCalls = 0
    /\ max = 0 /\ source = <<>> /\ pulls = 0 /\ tasks = IdleTasks
    /\ gpc = "none" /\ winner = NoWinner /\ opState = <<>> /\ opData = <<>>
    /\ yielded = <<>> /\ requested = FALSE
    /\ settled = <<>>
    /\ call = NoCall /\ ret = <<>>

PrefixCheckNext ==
    \/ PrefixFirstKey
    \/ KeyTags

PrefixCheckSpec == PrefixCheckInit /\ [][PrefixCheckNext]_vars

\* the first key of a listing of the prefix p
FirstUnder(p) == CHOOSE k \in KeysUnder(p) : \A x \in KeysUnder(p) : x = k \/ LexLess(k, x)

\* isPrefixTaggedAsOld has returned false: prefixTaggedAsOld has begun; true: the
\* prefix is reported as marked
ReturnedFalse == CheckedPrefix \in Range(scanned)
ReturnedTrue == CheckedPrefix \in reported

\* C22: isPrefixTaggedAsOld looks at one object only, the first one of a listing of
\* the prefix with one result, and returns true exactly when that object carries
\* the tag old=true; for a prefix without objects it returns false, without an
\* error and without reading tags
C22_FirstObjectDecides ==
    /\ runState # "failed" /\ setFailedCalls = 0
    /\ ppc = "await_tags" =>
         /\ KeysUnder(CheckedPrefix) # {}
         /\ firstKey = FirstUnder(CheckedPrefix)
    /\ KeysUnder(CheckedPrefix) = {} =>
         /\ ppc # "await_tags"
         /\ "GetObjectTagging" \notin sent
         /\ ~ReturnedTrue
    /\ ReturnedTrue =>
         /\ KeysUnder(CheckedPrefix) # {}
         /\ OldTag \in store[FirstUnder(CheckedPrefix)].tags
    /\ ReturnedFalse =>
         \/ KeysUnder(CheckedPrefix) = {}
         \/ OldTag \notin store[FirstUnder(CheckedPrefix)].tags
    /\ ppc \notin {"await_first", "await_tags"} => (ReturnedTrue \/ ReturnedFalse)

\* false has been returned although every object but the first is tagged old=true
\* and the first one carries old=false
C22_Witness ==
    /\ ReturnedFalse
    /\ Cardinality(KeysUnder(CheckedPrefix)) >= 2
    /\ "GetObjectTagging" \in sent
    /\ store[FirstUnder(CheckedPrefix)].tags = {[Key |-> "old", Value |-> "false"]}
    /\ \A k \in KeysUnder(CheckedPrefix) \ {FirstUnder(CheckedPrefix)} :
         OldTag \in store[k].tags

\* C23: no rollback: the objects a run has marked stay marked when the run stops
\* partway through a prefix; and a run that finds the first-listed object of a prefix
\* marked reports the prefix as marked and skips it, with no listing of its objects
\* and no mark-operation.  The state this leads to, a later run that has succeeded
\* while a strictly older version still holds unmarked objects, is C23_Witness
C23_NoRollbackMarkedPrefixSkipped ==
    /\ [][\A k \in DOMAIN store :
            /\ k \in DOMAIN store'
            /\ MarkedOld(store[k]) => MarkedOld(store'[k])]_vars
    /\ [][(runState = "running" /\ ppc = "await_tags" /\ failures' = failures
              /\ vars' # vars) =>
            IF OldTag \in store[firstKey].tags
            THEN /\ reported' = reported \cup {CurrentPrefix}
                 /\ vIdx' = vIdx + 1
                 /\ UNCHANGED <<store, markOps, scanned>>
                 /\ ppc' \in {"await_first", "end"}
            ELSE /\ scanned' = Append(scanned, CurrentPrefix)
                 /\ ppc' = "await_objects"
                 /\ UNCHANGED <<reported, vIdx>>]_vars
    /\ [](\A p \in reported :
            /\ p \notin Range(scanned)
            /\ \A j \in 1..Len(markOps) : ~IsPrefix(p, markOps[j]))

\* the run before stopped partway through a prefix; this run has found the first
\* object of the prefix marked, has skipped the prefix and has succeeded, and the
\* strictly older version still holds an object that is not marked
C23_Witness ==
    /\ runNo >= 2 /\ runState = "succeeded"
    /\ prevOutcome \in {"failed", "blocked"}
    /\ \E j \in 1..Len(olderVersions) :
         LET p == PrefixOf(olderVersions[j])
         IN  /\ StrictlyOlder(olderVersions[j], currentVersion)
             /\ p \in reported
             /\ MarkedOld(store[FirstUnder(p)])
             /\ \E k \in KeysUnder(p) : ~MarkedOld(store[k])


(***************************************************************************)
(* C24: no two mark-operations that are in flight at the same time target  *)
(* the same object key: the operations running concurrently within a run   *)
(* head and copy pairwise different objects.                               *)
(***************************************************************************)
C24_InFlightKeysDisjoint ==
    runState = "running" =>
        \A o1 \in InFlight : \A o2 \in InFlight :
            o1 # o2 => KeyOf(o1) # KeyOf(o2)

\* two operations of one run are in flight at once, one past its head request
C24_Witness ==
    /\ runState = "running"
    /\ \E o1 \in InFlight : \E o2 \in InFlight :
          /\ o1 # o2
          /\ opState[o1] = "copy"
          /\ opState[o2] \in {"head", "copy"}
          /\ KeyOf(o1) # KeyOf(o2)


\* the keys of the page of the listing of prefix p that is being drained
PageKeys(p) == KeysUpTo(p, page.marker) \ KeysUpTo(p, marker)

(***************************************************************************)
(* C25: at every instant of a run of tagOldVersions with concurrency N at  *)
(* most N mark-operations are in flight in total, and all of them belong   *)
(* to the same version prefix and to the same page of its listing.         *)
(***************************************************************************)
C25_RunWideBound ==
    (runState = "running" /\ InFlight # {}) =>
        /\ Cardinality(InFlight) <= parallel
        /\ ppc = "drain"
        /\ vIdx \in 1..Len(olderVersions)
        /\ \A o \in InFlight :
              /\ IsPrefix(CurrentPrefix, KeyOf(o))
              /\ KeyOf(o) \in PageKeys(CurrentPrefix)

\* N >= 2 operations are in flight at once, one of them past its head request, on
\* a page that is followed by another page of the same prefix
C25_Witness ==
    /\ runState = "running"
    /\ parallel >= 2
    /\ Cardinality(InFlight) = parallel
    /\ page.IsTruncated
    /\ \E o \in InFlight : opState[o] = "copy"


\* exhaustion has been observed: a done signal has won the race of line 22
ExhaustionObserved == gpc \in {"race2", "yield2", "done"}

\* an operation starts in the step
Starts == \E o \in DOMAIN opState : opState[o] = "unstarted" /\ opState'[o] # "unstarted"

(***************************************************************************)
(* C26: parallelGenerator pulls the source only during priming (exactly    *)
(* max pulls) and once per result it yields before exhaustion is observed, *)
(* so the number of source pulls never exceeds max plus the number of      *)
(* results yielded so far; while the consumer is not requesting a result   *)
(* no new operation is started, and after exhaustion has been observed the *)
(* source is never pulled again.                                           *)
(***************************************************************************)
C26_DemandDrivenPulling ==
    /\ [](pulls <= max + Len(yielded))
    /\ [](gpc \in {"race1", "yield1"} => pulls = max + Len(yielded))
    /\ [][pulls' # pulls =>
            IF gpc = "init"
            THEN pulls' = max /\ yielded' = yielded
            ELSE /\ gpc = "race1"
                 /\ pulls' = pulls + 1
                 /\ Len(yielded') = Len(yielded) + 1]_vars
    /\ [][(Starts \/ pulls' # pulls) => (requested \/ requested')]_vars
    /\ [][ExhaustionObserved => (pulls' = pulls /\ ~Starts)]_vars

\* results have been yielded, exhaustion has been observed with operations still in
\* flight, and the source was pulled max times and once for each result before that
C26_Witness ==
    /\ gpc = "yield2"
    /\ max >= 2
    /\ Len(source) > max
    /\ pulls > max
    /\ pulls < max + Len(yielded)
    /\ InFlight # {}

====
